---- MODULE Spec2Model ----
(***************************************************************************)
(* Model of crates/turbo-tasks-fs/src/rope.rs: the Rope (Flat / Concat     *)
(* over reference-counted chunks), its mutating operations, its hashing    *)
(* and equality, and the RopeReader cursor.                                *)
(*                                                                         *)
(* Chunks (Arc<Vec<u8>>) live in a heap: `chunks` holds the bytes of each  *)
(* allocation and `strong` its strong count.  A chunk id with strong count *)
(* zero is unallocated.  Ropes and external Arc handles hold chunk ids.    *)
(* `weak` counts the Weak pointers to each live allocation.                 *)
(***************************************************************************)
EXTENDS Integers, Sequences, FiniteSets, TLC

\* ---- bounds -----------------------------------------------------------
\* rope bindings and caller-held Arc<Bytes> handles that can exist at once
NRopes == 2
NHandles == 1
\* Weak<Bytes> pointers the caller can hold at once
NWeak == 1
\* longest flattened rope, and most chunks a concat may leave in a rope
MaxLen == 2
MaxChunks == 4
\* a push is explored on ropes of fewer than MaxPush chunks
MaxPush == 3
\* chunk allocations that can be live at once
MaxIds == 3
\* longest byte sequence passed to new / push_bytes / write / Arc::new
MaxArg == 1

RopeId == 1..NRopes
HandleId == 1..NHandles
ChunkId == 1..MaxIds
Byte == {0, 1}

RECURSIVE SeqsUpTo(_)
SeqsUpTo(n) == IF n = 0 THEN {<<>>}
               ELSE LET S == SeqsUpTo(n - 1)
                    IN S \cup {Append(s, b) : s \in {t \in S : Len(t) = n - 1}, b \in Byte}
ByteSeqs == SeqsUpTo(MaxArg)

\* chunks, strong : the bytes and the strong count of every allocation
\* ropes           : the rope held by each binding (NoRope: none)
\* weak            : the Weak<Bytes> pointers the caller holds to every live allocation
\* handles         : the allocation behind each caller-held Arc<Bytes> (0: none)
\* rd              : the RopeReader, with what its caller has seen so far
\* last            : the last call made on a rope and the branch it took ("arc":
\*                   the caller handled an Arc or a Weak of its own)
VARIABLES chunks, strong, weak, ropes, handles, rd, last
vars == <<chunks, strong, weak, ropes, handles, rd, last>>

\* ---- the Rope enum -------------------------------------------------------
NoRope == [kind |-> "None"]
Flat(el) == [kind |-> "Flat", elem |-> el]
Concat(length, data) == [kind |-> "Concat", length |-> length, data |-> data]

\* the chunk handles a rope holds, in order
Elems(rope) ==
    IF rope.kind = "Flat" THEN <<rope.elem>>
    ELSE IF rope.kind = "Concat" THEN rope.data
    ELSE <<>>

Count(seq, c) == Cardinality({i \in DOMAIN seq : seq[i] = c})

\* ---- Arc<Bytes> ------------------------------------------------------------
\* the id the next allocation gets
NewId(st) == CHOOSE c \in ChunkId : st[c] = 0 /\ \A d \in ChunkId : d < c => st[d] # 0

\* Arc::new(bytes): a fresh allocation with strong count one
Arc_new(H, bytes) ==
    LET c == NewId(H.strong)
    IN [H EXCEPT !.chunks[c] = bytes, !.strong[c] = 1]

\* Arc::clone of every handle in elems
Arc_clone_all(H, elems) ==
    [H EXCEPT !.strong = [c \in ChunkId |-> H.strong[c] + Count(elems, c)]]

\* drop of every handle in elems; the bytes of an allocation are dropped when its
\* strong count reaches zero.  A Weak left behind can never be upgraded again
\* and is no longer counted.
Arc_drop_all(H, elems) ==
    LET st == [c \in ChunkId |-> H.strong[c] - Count(elems, c)]
    IN [H EXCEPT !.strong = st,
                 !.weak = [c \in ChunkId |-> IF st[c] = 0 THEN 0 ELSE H.weak[c]],
                 !.chunks = [c \in ChunkId |-> IF st[c] = 0 THEN <<>> ELSE H.chunks[c]]]

\* Arc::get_mut(l).is_some(): exclusive access only when no other Arc and no
\* Weak points to the allocation
Arc_get_mut_any(H, c) == TRUE
Arc_get_mut_never(H, c) == FALSE
Arc_get_mut_strong_only(H, c) == H.strong[c] = 1
Arc_get_mut(H, c) == H.strong[c] = 1 /\ H.weak[c] = 0

\* ---- str ---------------------------------------------------------------------
\* core::str::from_utf8(s).is_ok()
InRange(b, lo, hi) == lo <= b /\ b <= hi
Cont(s, i) == i <= Len(s) /\ InRange(s[i], 128, 191)
RECURSIVE is_utf8(_)
is_utf8(s) ==
    IF s = <<>> THEN TRUE
    ELSE LET b == s[1]
             rest(k) == is_utf8(SubSeq(s, k + 1, Len(s)))
         IN IF b < 128 THEN rest(1)
            ELSE IF InRange(b, 194, 223) THEN Cont(s, 2) /\ rest(2)
            ELSE IF b = 224
                 THEN Len(s) >= 2 /\ InRange(s[2], 160, 191) /\ Cont(s, 3) /\ rest(3)
            ELSE IF InRange(b, 225, 236) \/ InRange(b, 238, 239)
                 THEN Cont(s, 2) /\ Cont(s, 3) /\ rest(3)
            ELSE IF b = 237
                 THEN Len(s) >= 2 /\ InRange(s[2], 128, 159) /\ Cont(s, 3) /\ rest(3)
            ELSE IF b = 240
                 THEN Len(s) >= 2 /\ InRange(s[2], 144, 191) /\ Cont(s, 3) /\ Cont(s, 4)
                      /\ rest(4)
            ELSE IF InRange(b, 241, 243)
                 THEN Cont(s, 2) /\ Cont(s, 3) /\ Cont(s, 4) /\ rest(4)
            ELSE IF b = 244
                 THEN Len(s) >= 2 /\ InRange(s[2], 128, 143) /\ Cont(s, 3) /\ Cont(s, 4)
                      /\ rest(4)
            ELSE FALSE

\* ---- Rope: len, flatten ------------------------------------------------------
len(rope, ch) ==
    IF rope.kind = "Flat" THEN Len(ch[rope.elem]) ELSE rope.length

RECURSIVE flatten_internal(_, _)
flatten_internal(elems, ch) ==
    IF elems = <<>> THEN <<>>
    ELSE ch[Head(elems)] \o flatten_internal(Tail(elems), ch)

flatten(rope, ch) ==
    IF rope.kind = "Flat" THEN ch[rope.elem]
    ELSE flatten_internal(rope.data, ch)

\* ---- Rope: push_shared_bytes, push_bytes, concat, write ----------------------
\* H is [chunks, strong, weak, self]; the operations return H after the call.
\* c is a handle whose ownership moves into the rope.
push_shared_bytes_front(H, c) ==
    IF H.self.kind = "Flat"
    THEN [H EXCEPT !.self = Concat(Len(H.chunks[H.self.elem]) + Len(H.chunks[c]),
                                   <<c, H.self.elem>>)]
    ELSE [H EXCEPT !.self = Concat(H.self.length + Len(H.chunks[c]),
                                   <<c>> \o H.self.data)]
push_shared_bytes_keep_flat(H, c) ==
    IF H.self.kind = "Flat"
    THEN IF H.chunks[c] = <<>>
         THEN Arc_drop_all(H, <<c>>)
         ELSE [H EXCEPT !.self = Concat(Len(H.chunks[H.self.elem]) + Len(H.chunks[c]),
                                        <<H.self.elem, c>>)]
    ELSE [H EXCEPT !.self = Concat(H.self.length + Len(H.chunks[c]),
                                   Append(H.self.data, c))]
push_shared_bytes(H, c) ==
    IF H.self.kind = "Flat"
    THEN \* data.clone() and the drop of the replaced Flat cancel out
         [H EXCEPT !.self = Concat(Len(H.chunks[H.self.elem]) + Len(H.chunks[c]),
                                   <<H.self.elem, c>>)]
    ELSE [H EXCEPT !.self = Concat(H.self.length + Len(H.chunks[c]),
                                   Append(H.self.data, c))]

\* the last chunk of the rope (Flat: its only chunk; Concat: data.last_mut())
last_elem(rope) == LET e == Elems(rope) IN e[Len(e)]

\* the in-place branch of push_bytes: last.extend(bytes); *length += l
extend_last_nolen(H, bytes) ==
    [H EXCEPT !.chunks[last_elem(H.self)] = @ \o bytes]
extend_last(H, bytes) ==
    LET H1 == [H EXCEPT !.chunks[last_elem(H.self)] = @ \o bytes]
    IN IF H.self.kind = "Concat"
       THEN [H1 EXCEPT !.self.length = @ + Len(bytes)]
       ELSE H1

push_bytes(H, bytes) ==
    IF Elems(H.self) # <<>> /\ Arc_get_mut(H, last_elem(H.self))
    THEN extend_last(H, bytes)
    ELSE push_shared_bytes(Arc_new(H, bytes), NewId(H.strong))

concat_rev(H, other) ==
    LET H1 == Arc_clone_all(H, Elems(other))
    IN [H1 EXCEPT !.self = Concat(len(H.self, H.chunks) + len(other, H.chunks),
                                  Elems(other) \o Elems(H.self))]
concat_skip_empty(H, other) ==
    LET add == SelectSeq(Elems(other), LAMBDA c : H.chunks[c] # <<>>)
        H1 == Arc_clone_all(H, add)
    IN [H1 EXCEPT !.self = Concat(len(H.self, H.chunks) + len(other, H.chunks),
                                  Elems(H.self) \o add)]
concat(H, other) ==
    LET H1 == Arc_clone_all(H, Elems(other))
    IN IF H.self.kind = "Flat"
       THEN [H1 EXCEPT !.self = Concat(Len(H.chunks[H.self.elem]) + len(other, H.chunks),
                                       <<H.self.elem>> \o Elems(other))]
       ELSE [H1 EXCEPT !.self = Concat(H.self.length + len(other, H.chunks),
                                       H.self.data \o Elems(other))]

\* impl Write for Rope: write(bytes) pushes an owned copy and returns Ok(bytes.len())
write(H, bytes) == [heap |-> push_bytes(H, bytes), ret |-> Len(bytes)]

\* ---- hashing and equality ----------------------------------------------------------
\* A hasher is modelled by the byte stream written into it.
\* write_usize / write_length_prefix: a usize written as its 8 bytes, low byte first
RECURSIVE le_bytes(_, _)
le_bytes(n, k) == IF k = 0 THEN <<>> ELSE <<n % 256>> \o le_bytes(n \div 256, k - 1)
write_usize(n) == le_bytes(n, 8)

\* v.hash(state) on a RopeElem: RopeElem has no Hash impl of its own, the call
\* resolves through Deref to Arc<Vec<u8>>, whose Hash is that of Vec<u8>:
\* the length prefix, then the bytes.
elem_hash(bytes) == write_usize(Len(bytes)) \o bytes

RECURSIVE hash_elems(_, _)
hash_elems(elems, ch) ==
    IF elems = <<>> THEN <<>>
    ELSE elem_hash(ch[Head(elems)]) \o hash_elems(Tail(elems), ch)

\* impl Hash for Rope
hash(rope, ch) ==
    IF rope.kind = "Flat" THEN ch[rope.elem]
    ELSE hash_elems(rope.data, ch)

\* v.deterministic_hash(state) on a RopeElem: the impl lives in turbo-tasks-hash;
\* taken at its contract, it writes the chunk's bytes.
elem_deterministic_hash(bytes) == bytes

RECURSIVE deterministic_hash_elems(_, _)
deterministic_hash_elems(elems, ch) ==
    IF elems = <<>> THEN <<>>
    ELSE elem_deterministic_hash(ch[Head(elems)]) \o deterministic_hash_elems(Tail(elems), ch)

\* impl DeterministicHash for Rope
deterministic_hash(rope, ch) ==
    IF rope.kind = "Flat" THEN ch[rope.elem]
    ELSE deterministic_hash_elems(rope.data, ch)

\* hash_xxh3_hash64: the 64-bit digest of the stream the value writes.  The
\* digest is represented by the stream itself (no collisions within the bounds).
hash_xxh3_hash64(rope, ch) == deterministic_hash(rope, ch)

\* impl PartialEq for Rope
eq(x, y, ch) ==
    IF len(x, ch) # len(y, ch) THEN FALSE
    ELSE hash_xxh3_hash64(x, ch) = hash_xxh3_hash64(y, ch)

\* ---- tokio ReadBuf -------------------------------------------------------------
\* ReadBuf::new(buf) over a destination of n bytes: nothing filled yet
ReadBuf_new(n) == [filled |-> <<>>, capacity |-> n]
NoBuf == [none |-> TRUE]
remaining_of(buf) == buf.capacity - Len(buf.filled)
put_slice(buf, s) == [buf EXCEPT !.filled = @ \o s]

\* ---- RopeReader ------------------------------------------------------------------
\* a cursor is [byte_pos, concat_index, max_bytes]; the rope it borrows is passed along
new_full(rope, ch) ==
    [byte_pos |-> 0, concat_index |-> 0, max_bytes |-> len(rope, ch)]

Min(a, b) == IF a <= b THEN a ELSE b

\* read_bytes without the budget in the amount, and read_bytes that keeps the
\* offset when it moves to the next chunk
read_bytes_nobudget(cur, bytes, remaining, buf) ==
    LET pos == cur.byte_pos
        amount == Min(Len(bytes) - pos, remaining)
        end == pos + amount
        cur1 == IF end = Len(bytes)
                THEN [cur EXCEPT !.byte_pos = 0, !.concat_index = @ + 1]
                ELSE [cur EXCEPT !.byte_pos = end]
    IN [cur |-> cur1, amount |-> amount,
        buf |-> IF buf = NoBuf THEN buf ELSE put_slice(buf, SubSeq(bytes, pos + 1, end))]
read_bytes_keep_pos(cur, bytes, remaining, buf) ==
    LET pos == cur.byte_pos
        amount == Min(Min(Len(bytes) - pos, remaining), cur.max_bytes)
        end == pos + amount
        cur1 == IF end = Len(bytes)
                THEN [cur EXCEPT !.byte_pos = end, !.concat_index = @ + 1]
                ELSE [cur EXCEPT !.byte_pos = end]
    IN [cur |-> cur1, amount |-> amount,
        buf |-> IF buf = NoBuf THEN buf ELSE put_slice(buf, SubSeq(bytes, pos + 1, end))]
\* read_bytes: returns the cursor, the amount copied and the destination after the copy
read_bytes(cur, bytes, remaining, buf) ==
    LET pos == cur.byte_pos
        amount == Min(Min(Len(bytes) - pos, remaining), cur.max_bytes)
        end == pos + amount
        cur1 == IF end = Len(bytes)
                THEN [cur EXCEPT !.byte_pos = 0, !.concat_index = @ + 1]
                ELSE [cur EXCEPT !.byte_pos = end]
    IN [cur |-> cur1, amount |-> amount,
        buf |-> IF buf = NoBuf THEN buf ELSE put_slice(buf, SubSeq(bytes, pos + 1, end))]

\* the chunk the cursor stands on, or 0 when the match breaks out of the loop
current_el(rope, cur) ==
    IF rope.kind = "Flat"
    THEN IF cur.concat_index > 0 THEN 0 ELSE rope.elem
    ELSE IF cur.concat_index + 1 \in DOMAIN rope.data
         THEN rope.data[cur.concat_index + 1] ELSE 0

\* the while loop of read_internal
RECURSIVE read_loop(_, _, _, _, _)
read_loop(rope, ch, cur, remaining, buf) ==
    IF remaining = 0 \/ current_el(rope, cur) = 0
    THEN [cur |-> cur, remaining |-> remaining, buf |-> buf]
    ELSE LET rb == read_bytes(cur, ch[current_el(rope, cur)], remaining, buf)
         IN IF rb.amount = 0
            THEN [cur |-> rb.cur, remaining |-> remaining, buf |-> rb.buf]
            ELSE read_loop(rope, ch,
                           [rb.cur EXCEPT !.max_bytes = @ - rb.amount],
                           remaining - rb.amount, rb.buf)

read_internal_want(rope, ch, cur, want, buf) ==
    LET r == read_loop(rope, ch, cur, want, buf)
    IN [cur |-> r.cur, ret |-> want, buf |-> r.buf]
read_internal(rope, ch, cur, want, buf) ==
    LET r == read_loop(rope, ch, cur, want, buf)
    IN [cur |-> r.cur, ret |-> want - r.remaining, buf |-> r.buf]

new_slice_noskip(rope, ch, start, end) ==
    [new_full(rope, ch) EXCEPT !.max_bytes = end - start]
new_slice(rope, ch, start, end) ==
    [read_internal(rope, ch, new_full(rope, ch), start, NoBuf).cur
        EXCEPT !.max_bytes = end - start]

\* impl Read: read(buf) with buf.len() = n
read(rope, ch, cur, n) ==
    LET r == read_internal(rope, ch, cur, n, ReadBuf_new(n))
    IN [cur |-> r.cur, ret |-> r.ret, bytes |-> r.buf.filled]

\* impl AsyncRead: poll_read(cx, buf)
poll_read_capacity(rope, ch, cur, buf) ==
    LET r == read_internal(rope, ch, cur, buf.capacity, buf)
    IN [cur |-> r.cur, poll |-> "Ready(Ok)", buf |-> r.buf]
poll_read(rope, ch, cur, buf) ==
    LET r == read_internal(rope, ch, cur, remaining_of(buf), buf)
    IN [cur |-> r.cur, poll |-> "Ready(Ok)", buf |-> r.buf]

\* ---- Serialize / Deserialize -------------------------------------------------------
\* std's Read::read_to_string reads to the end through default_read_to_end, which
\* appends to a Vec<u8> (here [bytes, cap]): a first read into a PROBE_SIZE stack
\* buffer when the Vec has less spare capacity than that, then reads into the
\* Vec's spare capacity, grown by at least PROBE_SIZE when the Vec is full, until
\* a read returns 0.
PROBE_SIZE == 32
DEFAULT_BUF_SIZE == 8192
MIN_NON_ZERO_CAP == 8

Max(a, b) == IF a >= b THEN a ELSE b

\* Vec::new()
Vec_new == [bytes |-> <<>>, cap |-> 0]

\* Vec<u8>::reserve / try_reserve(additional): amortized growth
reserve(v, additional) ==
    IF v.cap - Len(v.bytes) >= additional THEN v
    ELSE [v EXCEPT !.cap = Max(Max(2 * v.cap, Len(v.bytes) + additional),
                               MIN_NON_ZERO_CAP)]

extend_from_slice(v, s) == [reserve(v, Len(s)) EXCEPT !.bytes = @ \o s]

\* In the definitions below, x \in {e} binds x to the value of e, so that each
\* read is computed once.

\* small_probe_read: one read into a PROBE_SIZE buffer, appended to the Vec
small_probe_read(rope, ch, cur, v) ==
    CHOOSE p \in {[cur |-> r.cur, n |-> r.ret, vec |-> extend_from_slice(v, r.bytes)] :
                      r \in {read(rope, ch, cur, PROBE_SIZE)}} : TRUE

\* the second half of a pass of the loop: one read into the spare capacity of v,
\* at most max_read_size bytes; max_read_size doubles after a read that filled
\* such a destination; done when the read returned 0
read_spare(rope, ch, cur, v, max_read_size) ==
    LET buf_len == Min(v.cap - Len(v.bytes), max_read_size)
    IN CHOOSE st \in {[cur |-> r.cur,
                        vec |-> [v EXCEPT !.bytes = @ \o r.bytes],
                        max_read_size |-> IF buf_len >= max_read_size /\ r.ret = buf_len
                                          THEN 2 * max_read_size ELSE max_read_size,
                        done |-> r.ret = 0] :
                           r \in {read(rope, ch, cur, buf_len)}} : TRUE

\* one pass of the loop of default_read_to_end, on st = [cur, vec, max_read_size,
\* done]: a probe when the Vec is full at its initial capacity (return if it
\* read nothing), room for PROBE_SIZE more bytes when the Vec is full, then the
\* read into the spare capacity
read_to_end_pass(rope, ch, st, start_cap) ==
    CHOOSE next \in
        {IF p.n = 0 THEN [st EXCEPT !.cur = p.cur, !.vec = p.vec, !.done = TRUE]
         ELSE read_spare(rope, ch, p.cur,
                         IF Len(p.vec.bytes) = p.vec.cap
                         THEN reserve(p.vec, PROBE_SIZE) ELSE p.vec,
                         st.max_read_size) :
            p \in {IF Len(st.vec.bytes) = st.vec.cap /\ st.vec.cap = start_cap
                   THEN small_probe_read(rope, ch, st.cur, st.vec)
                   ELSE [cur |-> st.cur, n |-> -1, vec |-> st.vec]}} : TRUE

\* the loop of default_read_to_end; the result is the bytes of the Vec at return
RECURSIVE read_to_end_loop(_, _, _, _)
read_to_end_loop(rope, ch, st, start_cap) ==
    CHOOSE out \in
        {IF n.done THEN n.vec.bytes ELSE read_to_end_loop(rope, ch, n, start_cap) :
            n \in {read_to_end_pass(rope, ch, st, start_cap)}} : TRUE

\* default_read_to_end(r, buf, None): a first probe when buf has less spare
\* capacity than PROBE_SIZE (return if it read nothing), then the loop
read_to_end(rope, ch, cur, v) ==
    CHOOSE out \in
        {IF p.n = 0 THEN p.vec.bytes
         ELSE read_to_end_loop(rope, ch,
                               [cur |-> p.cur, vec |-> p.vec,
                                max_read_size |-> DEFAULT_BUF_SIZE, done |-> FALSE],
                               v.cap) :
            p \in {IF v.cap - Len(v.bytes) < PROBE_SIZE
                   THEN small_probe_read(rope, ch, cur, v)
                   ELSE [cur |-> cur, n |-> -1, vec |-> v]}} : TRUE

\* self.read().read_to_string(&mut s) on s = String::new(): Ok with the text
\* read, or Err when the bytes read are not UTF-8
read_to_string(rope, ch) ==
    LET bytes == read_to_end(rope, ch, new_full(rope, ch), Vec_new)
    IN [ok |-> is_utf8(bytes), text |-> IF is_utf8(bytes) THEN bytes ELSE <<>>]

\* The data format is the caller's.  It is taken as one in which a string and a
\* byte sequence are both written as their length followed by their bytes, so
\* that <Vec<u8>>::deserialize accepts what serialize_str wrote.
RECURSIVE from_le_bytes(_)
from_le_bytes(bs) == IF bs = <<>> THEN 0 ELSE Head(bs) + 256 * from_le_bytes(Tail(bs))
serialize_str(text) == write_usize(Len(text)) \o text
deserialize_bytes(wire) ==
    LET n == from_le_bytes(SubSeq(wire, 1, 8))
    IN SubSeq(wire, 9, 8 + n)

\* impl Serialize for Rope
serialize(rope, ch) ==
    LET s == read_to_string(rope, ch)
    IN IF s.ok THEN [ok |-> TRUE, wire |-> serialize_str(s.text)]
       ELSE [ok |-> FALSE, wire |-> <<>>]

\* ---- state machine -----------------------------------------------------------
Heap(r) == [chunks |-> chunks, strong |-> strong, weak |-> weak, self |-> ropes[r]]

Commit(H, r) ==
    /\ chunks' = H.chunks
    /\ strong' = H.strong
    /\ weak' = H.weak
    /\ ropes' = [ropes EXCEPT ![r] = H.self]

Live(r) == ropes[r].kind # "None"

Fits(r, n) == len(ropes[r], chunks) + n <= MaxLen

\* the heap of the exploration has room for one more allocation
CanAlloc == \E c \in ChunkId : strong[c] = 0

Init ==
    /\ chunks = [c \in ChunkId |-> <<>>]
    /\ strong = [c \in ChunkId |-> 0]
    /\ weak = [c \in ChunkId |-> 0]
    /\ ropes = [r \in RopeId |-> NoRope]
    /\ handles = [h \in HandleId |-> 0]
    /\ rd = [open |-> FALSE]
    /\ last = [op |-> "init"]

\* Rope::new(bytes) (also Default and the From conversions)
New(r, bytes) ==
    /\ ~rd.open
    /\ ~Live(r) /\ CanAlloc
    /\ LET H == Arc_new(Heap(r), bytes)
       IN Commit([H EXCEPT !.self = Flat(NewId(strong))], r)
    /\ last' = [op |-> "new"]
    /\ UNCHANGED <<handles, rd>>

\* #[derive(Clone)]: s = r.clone()
Clone(r, s) ==
    /\ ~rd.open
    /\ Live(r) /\ ~Live(s)
    /\ LET H == Arc_clone_all(Heap(s), Elems(ropes[r]))
       IN Commit([H EXCEPT !.self = ropes[r]], s)
    /\ last' = [op |-> "clone"]
    /\ UNCHANGED <<handles, rd>>

\* a rope goes out of scope
DropRope(r) ==
    /\ ~rd.open
    /\ Live(r)
    /\ LET H == Arc_drop_all(Heap(r), Elems(ropes[r]))
       IN Commit([H EXCEPT !.self = NoRope], r)
    /\ last' = [op |-> "drop"]
    /\ UNCHANGED <<handles, rd>>

\* the caller makes an Arc<Bytes> of its own
NewHandle(h, bytes) ==
    /\ ~rd.open
    /\ handles[h] = 0 /\ CanAlloc
    /\ LET H == Arc_new([chunks |-> chunks, strong |-> strong, weak |-> weak], bytes)
       IN chunks' = H.chunks /\ strong' = H.strong
    /\ handles' = [handles EXCEPT ![h] = NewId(strong)]
    /\ last' = [op |-> "arc"]
    /\ UNCHANGED <<weak, ropes, rd>>

\* the caller clones the Arc of the i-th chunk of rope r (RopeElem derefs to Arc<Bytes>)
TakeHandle(h, r, i) ==
    /\ ~rd.open
    /\ handles[h] = 0
    /\ Live(r) /\ i \in DOMAIN Elems(ropes[r])
    /\ strong' = [strong EXCEPT ![Elems(ropes[r])[i]] = @ + 1]
    /\ handles' = [handles EXCEPT ![h] = Elems(ropes[r])[i]]
    /\ last' = [op |-> "arc"]
    /\ UNCHANGED <<chunks, weak, ropes, rd>>

\* the caller drops its Arc<Bytes>
DropHandle(h) ==
    /\ ~rd.open
    /\ handles[h] # 0
    /\ LET H == Arc_drop_all([chunks |-> chunks, strong |-> strong, weak |-> weak],
                             <<handles[h]>>)
       IN chunks' = H.chunks /\ strong' = H.strong /\ weak' = H.weak
    /\ handles' = [handles EXCEPT ![h] = 0]
    /\ last' = [op |-> "arc"]
    /\ UNCHANGED <<ropes, rd>>

RECURSIVE SumTo(_, _)
SumTo(f, n) == IF n = 0 THEN 0 ELSE f[n] + SumTo(f, n - 1)
\* the Weak pointers the caller holds
WeakTotal == SumTo(weak, MaxIds)

\* the caller makes a Weak of a live allocation: Arc::downgrade of an Arc it
\* holds, or of a rope's chunk (RopeElem derefs to Arc<Bytes>)
Downgrade(c) ==
    /\ ~rd.open
    /\ strong[c] > 0
    /\ WeakTotal < NWeak
    /\ weak' = [weak EXCEPT ![c] = @ + 1]
    /\ last' = [op |-> "arc"]
    /\ UNCHANGED <<chunks, strong, ropes, handles, rd>>

\* the caller drops a Weak
DropWeak(c) ==
    /\ ~rd.open
    /\ weak[c] > 0
    /\ weak' = [weak EXCEPT ![c] = @ - 1]
    /\ last' = [op |-> "arc"]
    /\ UNCHANGED <<chunks, strong, ropes, handles, rd>>

PushBytes(r, bytes) ==
    /\ ~rd.open
    /\ Live(r) /\ Fits(r, Len(bytes))
    /\ Arc_get_mut(Heap(r), last_elem(ropes[r]))
          \/ (Len(Elems(ropes[r])) < MaxPush /\ CanAlloc)
    /\ Commit(push_bytes(Heap(r), bytes), r)
    /\ last' = [op |-> "push_bytes", self |-> r,
                path |-> IF Arc_get_mut(Heap(r), last_elem(ropes[r]))
                         THEN "in_place" ELSE "shared"]
    /\ UNCHANGED <<handles, rd>>

\* the caller moves its handle h into the rope
PushSharedBytes(r, h) ==
    /\ ~rd.open
    /\ Live(r) /\ handles[h] # 0
    /\ Fits(r, Len(chunks[handles[h]]))
    /\ Len(Elems(ropes[r])) < MaxPush
    /\ Commit(push_shared_bytes(Heap(r), handles[h]), r)
    /\ handles' = [handles EXCEPT ![h] = 0]
    /\ last' = [op |-> "push_shared_bytes", self |-> r,
                path |-> ropes[r].kind]
    /\ UNCHANGED rd

ConcatRopes(r, s) ==
    /\ ~rd.open
    /\ r # s /\ Live(r) /\ Live(s)
    /\ Fits(r, len(ropes[s], chunks))
    /\ Len(Elems(ropes[r])) + Len(Elems(ropes[s])) <= MaxChunks
    /\ Commit(concat(Heap(r), ropes[s]), r)
    /\ last' = [op |-> "concat", self |-> r,
                path |-> <<ropes[r].kind, ropes[s].kind>>]
    /\ UNCHANGED <<handles, rd>>

Write(r, bytes) ==
    /\ ~rd.open
    /\ Live(r) /\ Fits(r, Len(bytes))
    /\ Arc_get_mut(Heap(r), last_elem(ropes[r]))
          \/ (Len(Elems(ropes[r])) < MaxPush /\ CanAlloc)
    /\ Commit(write(Heap(r), bytes).heap, r)
    /\ last' = [op |-> "write", self |-> r,
                ret |-> write(Heap(r), bytes).ret,
                path |-> IF Arc_get_mut(Heap(r), last_elem(ropes[r]))
                         THEN "in_place" ELSE "shared"]
    /\ UNCHANGED <<handles, rd>>

\* impl AddAssign<&str> for Rope: rope += rhs pushes a copy of the str's bytes
\* (a &str is held as the UTF-8 bytes it consists of)
add_assign(H, rhs) == push_bytes(H, rhs)

AddAssign(r, rhs) ==
    /\ ~rd.open
    /\ is_utf8(rhs)
    /\ Live(r) /\ Fits(r, Len(rhs))
    /\ Arc_get_mut(Heap(r), last_elem(ropes[r]))
          \/ (Len(Elems(ropes[r])) < MaxPush /\ CanAlloc)
    /\ Commit(add_assign(Heap(r), rhs), r)
    /\ last' = [op |-> "push_bytes", self |-> r,
                path |-> IF Arc_get_mut(Heap(r), last_elem(ropes[r]))
                         THEN "in_place" ELSE "shared"]
    /\ UNCHANGED <<handles, rd>>

\* Both bindings are constructed, cloned (either way), read through handles and
\* dropped; the appending calls are made on rope 1, with rope 2 as the other
\* rope of concat and as the rope that shares chunks with it.
Next ==
    \/ \E r \in RopeId, b \in ByteSeqs : New(r, b)
    \/ \E r, s \in RopeId : Clone(r, s)
    \/ \E r \in RopeId : DropRope(r)
    \/ \E h \in HandleId, b \in ByteSeqs : NewHandle(h, b)
    \/ \E h \in HandleId, r \in RopeId, i \in 1..MaxChunks : TakeHandle(h, r, i)
    \/ \E h \in HandleId : DropHandle(h)
    \/ \E c \in ChunkId : Downgrade(c)
    \/ \E c \in ChunkId : DropWeak(c)
    \/ \E b \in ByteSeqs : PushBytes(1, b)
    \/ \E h \in HandleId : PushSharedBytes(1, h)
    \/ ConcatRopes(1, 2)
    \/ \E b \in ByteSeqs : Write(1, b)
    \/ \E b \in ByteSeqs : AddAssign(1, b)

Spec == Init /\ [][Next]_vars

\* ---- the chunk handle reached through DerefMut -----------------------------------
\* <RopeElem as DerefMut>::deref_mut hands out the &mut Arc<Bytes> of a chunk (the
\* variants' fields are public, so a caller holding &mut Rope reaches every
\* RopeElem).  Neither use below goes through the rope's own operations, so a
\* Concat's cached length is left as it was.
\* the bytes a caller leaves in a chunk, and the longest content a rope is left
\* with (one argument past the longest rope the operations build)
PokeSeqs == SeqsUpTo(MaxLen)
MaxPoked == MaxLen + MaxArg

\* Arc::get_mut(elem.deref_mut()): with exclusive access the caller rewrites the
\* Vec of the i-th chunk (extend, truncate, overwrite)
DerefMutGetMut(r, i, bytes) ==
    /\ ~rd.open
    /\ Live(r) /\ i \in DOMAIN Elems(ropes[r])
    /\ Arc_get_mut(Heap(r), Elems(ropes[r])[i])
    /\ bytes # chunks[Elems(ropes[r])[i]]
    /\ chunks' = [chunks EXCEPT ![Elems(ropes[r])[i]] = bytes]
    /\ Len(flatten(ropes[r], chunks')) <= MaxPoked
    /\ last' = [op |-> "deref_mut"]
    /\ UNCHANGED <<strong, weak, ropes, handles, rd>>

\* *elem.deref_mut() = Arc::new(bytes): the i-th chunk handle is replaced by a new
\* allocation and the Arc it held is dropped
DerefMutAssign(r, i, bytes) ==
    /\ ~rd.open
    /\ Live(r) /\ i \in DOMAIN Elems(ropes[r])
    /\ CanAlloc
    /\ LET H == Arc_drop_all(Arc_new(Heap(r), bytes), <<Elems(ropes[r])[i]>>)
           self == IF ropes[r].kind = "Flat" THEN Flat(NewId(strong))
                   ELSE [ropes[r] EXCEPT !.data[i] = NewId(strong)]
       IN /\ Len(flatten(self, H.chunks)) <= MaxPoked
          /\ Commit([H EXCEPT !.self = self], r)
    /\ last' = [op |-> "deref_mut"]
    /\ UNCHANGED <<handles, rd>>

\* Ropes built, cloned and dropped as in Next, appended to by push_bytes, write
\* and concat, with the caller's use of deref_mut on the chunks of rope 1 in
\* between (chunks become shared through clone and concat)
NextDerefMut ==
    \/ \E r \in RopeId, b \in ByteSeqs : New(r, b)
    \/ \E r, s \in RopeId : Clone(r, s)
    \/ \E r \in RopeId : DropRope(r)
    \/ \E b \in ByteSeqs : PushBytes(1, b)
    \/ ConcatRopes(1, 2)
    \/ \E b \in ByteSeqs : Write(1, b)
    \/ \E i \in 1..MaxChunks, b \in PokeSeqs : DerefMutGetMut(1, i, b)
    \/ \E i \in 1..MaxChunks, b \in ByteSeqs : DerefMutAssign(1, i, b)

SpecDerefMut == Init /\ [][NextDerefMut]_vars

\* ---- the reader's part of the state machine ------------------------------------
\* A RopeReader borrows its rope (rope: &'a Rope), so the rope cannot be pushed
\* to while the reader lives; the runs explored here only read until the reader
\* is dropped.
\* rd holds the cursor and, beside it, what the caller has seen: the bytes
\* produced so far (out), the last return value (ret, -1 before the first
\* read), whether an earlier read returned 0 (eof), the destination size of the
\* read() calls so far (n: 0 before the first, -1 once two sizes were used) and
\* whether poll_read was used (polled).
WantSizes == 1..(MaxLen + 1)
Prefills == {<<>>, <<1>>}

Opened(r, cur, start, end) ==
    [open |-> TRUE, rope |-> r, cur |-> cur, start |-> start, end |-> end,
     out |-> <<>>, ret |-> -1, eof |-> FALSE, n |-> 0, polled |-> FALSE]

\* Rope::read
OpenFull(r) ==
    /\ ~rd.open /\ Live(r)
    /\ rd' = Opened(r, new_full(ropes[r], chunks), 0, len(ropes[r], chunks))
    /\ last' = [op |-> "reader"]
    /\ UNCHANGED <<chunks, strong, weak, ropes, handles>>

\* Rope::slice(start, end), within 0 <= start <= end <= len
OpenSlice(r, start, end) ==
    /\ ~rd.open /\ Live(r)
    /\ start <= end /\ end <= len(ropes[r], chunks)
    /\ rd' = Opened(r, new_slice(ropes[r], chunks, start, end), start, end)
    /\ last' = [op |-> "reader"]
    /\ UNCHANGED <<chunks, strong, weak, ropes, handles>>

Read(n) ==
    /\ rd.open
    /\ LET res == read(ropes[rd.rope], chunks, rd.cur, n)
       IN rd' = [rd EXCEPT !.cur = res.cur,
                           !.out = @ \o res.bytes,
                           !.ret = res.ret,
                           !.eof = rd.ret = 0 \/ @,
                           !.n = IF @ = 0 \/ @ = n THEN n ELSE -1]
    /\ last' = [op |-> "reader"]
    /\ UNCHANGED <<chunks, strong, weak, ropes, handles>>

PollRead(n, pre) ==
    /\ rd.open
    /\ LET dst == [filled |-> pre, capacity |-> Len(pre) + n]
           res == poll_read(ropes[rd.rope], chunks, rd.cur, dst)
           got == SubSeq(res.buf.filled, Len(pre) + 1, Len(res.buf.filled))
       IN rd' = [rd EXCEPT !.cur = res.cur,
                           !.out = @ \o got,
                           !.ret = Len(got),
                           !.eof = rd.ret = 0 \/ @,
                           !.polled = TRUE]
    /\ last' = [op |-> "reader"]
    /\ UNCHANGED <<chunks, strong, weak, ropes, handles>>

\* the reader goes out of scope and the borrow of the rope ends
CloseReader ==
    /\ rd.open
    /\ rd' = [open |-> FALSE]
    /\ last' = [op |-> "reader"]
    /\ UNCHANGED <<chunks, strong, weak, ropes, handles>>

\* rope 1 is built by new, push_bytes (in place, or through push_shared_bytes
\* when its last chunk is shared) and concat with rope 2, and then read
NextRead ==
    \/ \E r \in RopeId, b \in ByteSeqs : New(r, b)
    \/ \E r \in RopeId : DropRope(r)
    \/ \E b \in ByteSeqs : PushBytes(1, b)
    \/ ConcatRopes(1, 2)
    \/ OpenFull(1)
    \/ \E start, end \in 0..MaxLen : OpenSlice(1, start, end)
    \/ \E n \in WantSizes : Read(n)
    \/ \E n \in WantSizes, pre \in Prefills : PollRead(n, pre)
    \/ CloseReader

SpecRead == Init /\ [][NextRead]_vars

\* Synchronous reading alone: rope 1 is built as above and read through read().
\* The caller of a reader goes on calling read() while it holds the reader.
\* Whether a read returns 0 does not depend on the values of the bytes, so the
\* chunks are made of one byte value.
LiveArgs == {b \in ByteSeqs : \A i \in DOMAIN b : b[i] = 0}
NextReadLive ==
    \/ \E r \in RopeId, b \in LiveArgs : New(r, b)
    \/ DropRope(2)
    \/ \E b \in LiveArgs : PushBytes(1, b)
    \/ ConcatRopes(1, 2)
    \/ OpenFull(1)
    \/ \E start, end \in 0..MaxLen : OpenSlice(1, start, end)
    \/ \E n \in WantSizes : Read(n)
    \/ CloseReader

SpecReadLive == Init /\ [][NextReadLive]_vars /\ WF_vars(\E n \in WantSizes : Read(n))

\* ---- serialization round trips -------------------------------------------------------
\* impl Serialize for Rope, the outcome kept in `last`
Serialize(r) ==
    /\ ~rd.open /\ Live(r)
    /\ last' = [op |-> "serialize", self |-> r, result |-> serialize(ropes[r], chunks)]
    /\ UNCHANGED <<chunks, strong, weak, ropes, handles, rd>>

\* impl Deserialize for Rope, on what the last serialize wrote
Deserialize(s) ==
    /\ ~rd.open
    /\ last.op = "serialize" /\ last.result.ok
    /\ ~Live(s) /\ CanAlloc
    /\ LET H == Arc_new(Heap(s), deserialize_bytes(last.result.wire))
       IN Commit([H EXCEPT !.self = Flat(NewId(strong))], s)
    /\ last' = [op |-> "deserialize", self |-> s, from |-> last.self]
    /\ UNCHANGED <<handles, rd>>

\* arguments of new and push_bytes: empty, "A", the two bytes of U+00E9 one at a
\* time, and a byte that occurs in no UTF-8 text
SerdeArgs == {<<>>, <<65>>, <<195>>, <<169>>, <<255>>}

NextSerde ==
    \/ \E r \in RopeId, b \in SerdeArgs : New(r, b)
    \/ \E r \in RopeId : DropRope(r)
    \/ \E b \in SerdeArgs : PushBytes(1, b)
    \/ ConcatRopes(1, 2)
    \/ Serialize(1)
    \/ Deserialize(2)

SpecSerde == Init /\ [][NextSerde]_vars

\* ---- the documented example ------------------------------------------------------
\* Rope::default(), push_bytes("hello"), push_shared_bytes(Arc::new(" world")),
\* concat(&Rope::from("!")), in this order, and then any cursor over the result.
\* The texts are given by their bytes.
Hello == <<104, 101, 108, 108, 111>>
SpaceWorld == <<32, 119, 111, 114, 108, 100>>
Bang == <<33>>
HelloWorldBang == Hello \o SpaceWorld \o Bang

ExDefault == ~Live(1) /\ ~Live(2) /\ New(1, <<>>)

ExPushBytes ==
    /\ ~rd.open
    /\ ropes[1].kind = "Flat" /\ flatten(ropes[1], chunks) = <<>>
    /\ Commit(push_bytes(Heap(1), Hello), 1)
    /\ last' = [op |-> "push_bytes", self |-> 1,
                path |-> IF Arc_get_mut(Heap(1), last_elem(ropes[1]))
                         THEN "in_place" ELSE "shared"]
    /\ UNCHANGED <<handles, rd>>

ExNewHandle ==
    /\ ropes[1].kind = "Flat" /\ flatten(ropes[1], chunks) = Hello
    /\ NewHandle(1, SpaceWorld)

ExPushSharedBytes ==
    /\ ~rd.open
    /\ ropes[1].kind = "Flat" /\ handles[1] # 0
    /\ Commit(push_shared_bytes(Heap(1), handles[1]), 1)
    /\ handles' = [handles EXCEPT ![1] = 0]
    /\ last' = [op |-> "push_shared_bytes", self |-> 1, path |-> ropes[1].kind]
    /\ UNCHANGED rd

ExNewOther == ropes[1].kind = "Concat" /\ New(2, Bang)

ExConcat ==
    /\ ~rd.open
    /\ ropes[1].kind = "Concat" /\ Len(ropes[1].data) = 2 /\ Live(2)
    /\ Commit(concat(Heap(1), ropes[2]), 1)
    /\ last' = [op |-> "concat", self |-> 1, path |-> <<ropes[1].kind, ropes[2].kind>>]
    /\ UNCHANGED <<handles, rd>>

\* the four calls have been made
ExBuilt == ropes[1].kind = "Concat" /\ Len(ropes[1].data) = 3

ExSizes == {1, 2, 5, 16}

NextExample ==
    \/ ExDefault
    \/ ExPushBytes
    \/ ExNewHandle
    \/ ExPushSharedBytes
    \/ ExNewOther
    \/ ExConcat
    \/ ExBuilt /\ OpenFull(1)
    \/ ExBuilt /\ \E start, end \in 0..Len(HelloWorldBang) : OpenSlice(1, start, end)
    \/ \E n \in ExSizes : Read(n)
    \/ \E n \in ExSizes : PollRead(n, <<>>)
    \/ CloseReader

SpecExample == Init /\ [][NextExample]_vars

\* ==== properties ======================================================================
Content(r) == flatten(ropes[r], chunks)
Holders(c) == {r \in RopeId : \E i \in DOMAIN Elems(ropes[r]) : Elems(ropes[r])[i] = c}

\* C1: ropes with equal flattened bytes compare equal, and both Hash::hash and
\* DeterministicHash::deterministic_hash write the same data for them, whatever
\* their chunk layouts.
C1_EqualContentSameHash ==
    \A x, y \in RopeId :
        (Live(x) /\ Live(y) /\ Content(x) = Content(y)) =>
            /\ eq(ropes[x], ropes[y], chunks)
            /\ hash(ropes[x], chunks) = hash(ropes[y], chunks)
            /\ deterministic_hash(ropes[x], chunks) = deterministic_hash(ropes[y], chunks)

\* the bytes of the cursor's range
Expected == SubSeq(flatten(ropes[rd.rope], chunks), rd.start + 1, rd.end)
FullCursor == rd.open /\ rd.start = 0 /\ rd.end = len(ropes[rd.rope], chunks)
\* the last read is the first one that returned 0
FirstZero == rd.open /\ rd.ret = 0 /\ ~rd.eof

\* C2: on a full cursor, read() calls with one destination size n >= 1, repeated
\* until the first return of 0, have produced exactly the flattened bytes.
C2_ReadToEndIsFlatten ==
    (FullCursor /\ FirstZero /\ rd.n >= 1 /\ ~rd.polled) =>
        rd.out = flatten(ropes[rd.rope], chunks)

Mutators == {"push_bytes", "write", "push_shared_bytes", "concat"}
SameContent(s) ==
    /\ ropes'[s].kind # "None"
    /\ flatten(ropes'[s], chunks') = flatten(ropes[s], chunks)
    /\ len(ropes'[s], chunks') = len(ropes[s], chunks)
C3_Step ==
    /\ \A c \in ChunkId :
          (strong[c] > 0 /\ strong'[c] > 0 /\ chunks'[c] # chunks[c]) =>
              /\ strong[c] = 1
              /\ last'.op \in Mutators /\ last_elem(ropes[last'.self]) = c
    /\ \A s \in RopeId :
          (Live(s) /\ (last'.op \in Mutators => s # last'.self)
                   /\ (last'.op = "drop" => ropes'[s].kind # "None")) => SameContent(s)
    /\ \A h \in HandleId :
          (handles[h] # 0 /\ handles'[h] = handles[h]) =>
              chunks'[handles[h]] = chunks[handles[h]]
\* C3: a chunk's bytes change only while its strong count is one and only in the
\* rope being pushed to; an operation on one rope leaves the flattened bytes and
\* length of every other rope, and the bytes behind every external handle, as
\* they were.
C3_SoleOwnerMutation == [][C3_Step]_vars
C3_Witness ==
    /\ last.op = "push_bytes" /\ last.path = "shared"
    /\ \E r, s \in RopeId :
          /\ r # s /\ Live(r) /\ Live(s)
          /\ Elems(ropes[r])[1] = Elems(ropes[s])[1]
          /\ Content(r) # Content(s)
    /\ \E h \in HandleId : handles[h] # 0 /\ Holders(handles[h]) # {}

RECURSIVE SumLen(_, _)
SumLen(elems, ch) ==
    IF elems = <<>> THEN 0 ELSE Len(ch[Head(elems)]) + SumLen(Tail(elems), ch)
\* C4: the cached length of a Concat rope is the sum of its chunks' lengths, and
\* len() is the length of flatten() for every rope.
C4_CachedLength ==
    \A r \in RopeId : Live(r) =>
        /\ ropes[r].kind = "Concat" => ropes[r].length = SumLen(ropes[r].data, chunks)
        /\ len(ropes[r], chunks) = Len(flatten(ropes[r], chunks))
C4_Witness ==
    /\ last.op = "push_bytes" /\ last.path = "in_place"
    /\ \E r \in RopeId :
          /\ ropes[r].kind = "Concat" /\ ropes[r].length = MaxLen
          /\ strong[last_elem(ropes[r])] = 1
          /\ Len(chunks[last_elem(ropes[r])]) = MaxLen
          /\ strong[ropes[r].data[1]] > 1

C5_Step ==
    \A r, s \in RopeId : (last'.op = "concat" /\ last'.self = r /\ ConcatRopes(r, s)) =>
        /\ flatten(ropes'[r], chunks') = flatten(ropes[r], chunks) \o flatten(ropes[s], chunks)
        /\ len(ropes'[r], chunks') = len(ropes[r], chunks) + len(ropes[s], chunks)
        /\ ropes'[s] = ropes[s]
        /\ \A i \in DOMAIN Elems(ropes[s]) :
              chunks'[Elems(ropes[s])[i]] = chunks[Elems(ropes[s])[i]]
\* C5: x.concat(&y) leaves x with its previous bytes followed by y's, with the sum
\* of the two lengths, and leaves y's chunk list and bytes as they were.
C5_ConcatAppends == [][C5_Step]_vars
C5_Witness ==
    /\ last.op = "concat" /\ last.path = <<"Concat", "Concat">>
    /\ \E r, s \in RopeId :
          /\ r # s /\ Content(r) = <<0, 1>> /\ Content(s) = <<1>>
          /\ Len(Elems(ropes[r])) = 4

C6_Step ==
    \A r \in RopeId, b \in ByteSeqs : (last'.op = "push_bytes" /\ last'.self = r /\ PushBytes(r, b)) =>
        IF strong[last_elem(ropes[r])] = 1
        THEN /\ Len(Elems(ropes'[r])) = Len(Elems(ropes[r]))
             /\ ropes'[r].kind = ropes[r].kind
        ELSE Len(Elems(ropes'[r])) = Len(Elems(ropes[r])) + 1
\* C6 as stated: push_bytes keeps the chunk count and the variant when the last
\* chunk has one owner, and adds exactly one chunk when the last chunk has
\* another holder.
C6_PushBytesChunkCount == [][C6_Step]_vars

C6_ExclusiveStep ==
    \A r \in RopeId, b \in ByteSeqs : (last'.op = "push_bytes" /\ last'.self = r /\ PushBytes(r, b)) =>
        IF strong[last_elem(ropes[r])] = 1 /\ weak[last_elem(ropes[r])] = 0
        THEN /\ Len(Elems(ropes'[r])) = Len(Elems(ropes[r]))
             /\ ropes'[r].kind = ropes[r].kind
        ELSE Len(Elems(ropes'[r])) = Len(Elems(ropes[r])) + 1
\* C6, amended: push_bytes keeps the chunk count and the variant when the last
\* chunk has one owner and no Weak pointer to it exists, and adds exactly one
\* chunk otherwise (another owner holds the chunk, or a Weak points to it).
C6_PushBytesChunkCountExclusive == [][C6_ExclusiveStep]_vars
\* push_bytes has just added a chunk to a rope whose last chunk had one owner
\* and a Weak pointing to it
C6_Witness ==
    /\ last.op = "push_bytes" /\ last.path = "shared"
    /\ LET e == Elems(ropes[last.self])
       IN /\ Len(e) = 2
          /\ strong[e[1]] = 1 /\ weak[e[1]] = 1
          /\ Content(last.self) = <<0, 1>>

\* C7: a slice(start, end) cursor with 0 <= start <= end <= len, read until the
\* first return of 0, has produced exactly flatten(rope)[start..end].
C7_SliceReadsRange == FirstZero => rd.out = Expected

\* C8: a read() into a non-empty destination returns 0 only on an exhausted
\* cursor: every later read returns 0 as well, and the whole range has been
\* produced by then.
C8_ZeroMeansExhausted ==
    (rd.open /\ ~rd.polled) =>
        /\ rd.eof => rd.ret = 0
        /\ rd.ret = 0 => rd.out = Expected

Appended(r, b) ==
    /\ flatten(ropes'[r], chunks') = flatten(ropes[r], chunks) \o b
    /\ len(ropes'[r], chunks') = len(ropes[r], chunks) + Len(b)
C9_Step ==
    \A r \in RopeId, b \in ByteSeqs :
        /\ (last'.op = "push_bytes" /\ last'.self = r /\ PushBytes(r, b)) => Appended(r, b)
        /\ (last'.op = "write" /\ last'.self = r /\ Write(r, b)) => (Appended(r, b) /\ last'.ret = Len(b))
\* C9: in every rope state, those left by deref_mut included, push_bytes(b)
\* appends b to the flattened bytes and adds Len(b) to the length on both of its
\* paths; write(b) does the same and returns Ok(Len(b)).
C9_PushBytesPathsAgree == [][C9_Step]_vars
\* write has just added a chunk to a rope whose cached length was not the length
\* of its content
C9_Witness ==
    /\ last.op = "write" /\ last.path = "shared" /\ last.ret = 1
    /\ Len(Elems(ropes[last.self])) = 3
    /\ len(ropes[last.self], chunks) # Len(Content(last.self))

\* C10: from every cursor state and for every remaining capacity n, poll_read is
\* Ready(Ok), appends to the destination the bytes read() would put into an
\* n-byte destination, and leaves the cursor where read() leaves it.
C10_PollReadIsRead ==
    rd.open =>
        \A n \in 0..(MaxLen + 1), pre \in Prefills :
            LET p == poll_read(ropes[rd.rope], chunks, rd.cur,
                               [filled |-> pre, capacity |-> Len(pre) + n])
                s == read(ropes[rd.rope], chunks, rd.cur, n)
            IN /\ p.poll = "Ready(Ok)"
               /\ p.buf.filled = pre \o s.bytes
               /\ Len(s.bytes) = s.ret
               /\ p.cur = s.cur
C10_Witness ==
    /\ rd.open /\ rd.polled /\ rd.ret = 2
    /\ ropes[rd.rope].kind = "Concat" /\ rd.cur.concat_index = 2
    /\ rd.out = <<0, 1>>

\* C11: the rope built by push_bytes("hello"), push_shared_bytes(" world"),
\* concat(rope("!")) from the default rope flattens to "hello world!", has
\* length 12, and its slice(6, 11), read until the first return of 0, has
\* produced "world".
C11_HelloWorldExample ==
    /\ ExBuilt =>
          /\ flatten(ropes[1], chunks) = HelloWorldBang
          /\ len(ropes[1], chunks) = 12
    /\ (FirstZero /\ rd.start = 6 /\ rd.end = 11) => rd.out = <<119, 111, 114, 108, 100>>
C11_Witness ==
    /\ ExBuilt /\ FirstZero /\ rd.start = 6 /\ rd.end = 11
    /\ Len(rd.out) = 5 /\ ~rd.polled /\ rd.n = 2
    /\ flatten(ropes[1], chunks) = HelloWorldBang

\* C12: serializing any rope succeeds, and deserializing what it wrote gives a
\* Flat rope whose flattened bytes are those of the serialized rope.
C12_SerdeRoundTrip ==
    /\ last.op = "serialize" => last.result.ok
    /\ last.op = "deserialize" =>
          /\ ropes[last.self].kind = "Flat"
          /\ flatten(ropes[last.self], chunks) = flatten(ropes[last.from], chunks)

\* the destinations a call of read_internal may be given for a count n
Sinks(n) == {NoBuf, ReadBuf_new(n)}

\* C13: every call of read_internal, with or without a destination, returns at
\* most min(want, max_bytes), lowers max_bytes by exactly what it returns and
\* leaves it at zero or above; the bytes a cursor has produced and the budget it
\* has left add up to its initial budget end - start.
C13_BudgetRespected ==
    rd.open =>
        /\ rd.cur.max_bytes >= 0
        /\ Len(rd.out) + rd.cur.max_bytes = rd.end - rd.start
        /\ \A want \in 0..(MaxLen + 1) : \A buf \in Sinks(want) :
              LET r == read_internal(ropes[rd.rope], chunks, rd.cur, want, buf)
              IN /\ r.ret <= Min(want, rd.cur.max_bytes)
                 /\ r.cur.max_bytes = rd.cur.max_bytes - r.ret
                 /\ r.cur.max_bytes >= 0
                 /\ buf # NoBuf => Len(r.buf.filled) = r.ret
C13_Witness ==
    /\ rd.open /\ ~rd.polled
    /\ rd.start = 0 /\ rd.end = 1 /\ len(ropes[rd.rope], chunks) = 2
    /\ rd.n = 3 /\ rd.ret = 1 /\ Len(rd.out) = 1
    /\ rd.cur.max_bytes = 0 /\ current_el(ropes[rd.rope], rd.cur) # 0

\* C17: a cursor's concat_index is at most the number of chunks; on a current
\* chunk byte_pos is below the chunk's length, or 0 on an empty chunk, so
\* bytes.len() - pos does not underflow and pos..end lies inside the chunk.
C17_CursorInBounds ==
    rd.open =>
        LET rope == ropes[rd.rope]
            cur == rd.cur
            el == current_el(rope, cur)
        IN /\ cur.concat_index \in 0..Len(Elems(rope))
           /\ cur.byte_pos >= 0
           /\ el # 0 =>
                 /\ cur.byte_pos <= Len(chunks[el])
                 /\ chunks[el] # <<>> => cur.byte_pos < Len(chunks[el])
                 /\ chunks[el] = <<>> => cur.byte_pos = 0
                 /\ \A want \in 0..(MaxLen + 1) :
                       LET rb == read_bytes(cur, chunks[el], want, NoBuf)
                       IN /\ Len(chunks[el]) - cur.byte_pos >= 0
                          /\ rb.amount >= 0
                          /\ cur.byte_pos + rb.amount <= Len(chunks[el])
C17_Witness ==
    /\ rd.open /\ ropes[rd.rope].kind = "Concat"
    /\ rd.cur.concat_index = 1 /\ rd.cur.byte_pos = 1
    /\ Len(chunks[current_el(ropes[rd.rope], rd.cur)]) = 2

IsPrefix(a, b) == Len(a) <= Len(b) /\ SubSeq(b, 1, Len(a)) = a
\* the chunks at positions 1..k of the list hold the bytes they held
KeptBytes(elems, k) == \A i \in 1..k : chunks'[elems[i]] = chunks[elems[i]]
C14_Step ==
    \A r \in RopeId :
        LET old == Elems(ropes[r])
            new == Elems(ropes'[r])
        IN /\ (Live(r) /\ ropes'[r].kind # "None") => IsPrefix(old, new)
           /\ (last'.op = "push_shared_bytes" /\ last'.self = r) =>
                 \E h \in HandleId :
                     /\ handles[h] # 0
                     /\ new = Append(old, handles[h])
                     /\ chunks'[handles[h]] = chunks[handles[h]]
                     /\ KeptBytes(old, Len(old))
           /\ (last'.op = "concat" /\ last'.self = r) =>
                 \E s \in RopeId \ {r} :
                     /\ new = old \o Elems(ropes[s])
                     /\ KeptBytes(new, Len(new))
           /\ (last'.op \in {"push_bytes", "write"} /\ last'.self = r) =>
                 \E b \in ByteSeqs :
                     \/ /\ new = old
                        /\ chunks'[last_elem(ropes[r])] = chunks[last_elem(ropes[r])] \o b
                        /\ KeptBytes(old, Len(old) - 1)
                     \/ /\ new = Append(old, new[Len(new)])
                        /\ strong[new[Len(new)]] = 0
                        /\ chunks'[new[Len(new)]] = b
                        /\ KeptBytes(old, Len(old))
\* C14: push_shared_bytes, concat and push_bytes only append to the chunk list:
\* the previous list stays as a prefix with its bytes, push_shared_bytes adds the
\* donated chunk untouched, concat adds the other rope's chunks, and push_bytes
\* either extends the bytes of the last chunk or adds one new chunk.
C14_AppendOnlyChunks == [][C14_Step]_vars
C14_Witness ==
    /\ last.op = "concat" /\ last.path = <<"Concat", "Concat">>
    /\ LET e == Elems(ropes[last.self])
       IN /\ Len(e) = 4
          /\ chunks[e[1]] # <<>> /\ chunks[e[2]] = <<>>
          /\ chunks[e[3]] = <<>> /\ chunks[e[4]] # <<>>

C15_Step ==
    \A r \in RopeId :
        /\ ropes[r].kind = "Concat" => Len(ropes[r].data) >= 2
        /\ ropes'[r].kind = "Concat" => Len(ropes'[r].data) >= 2
        /\ (last'.op \in {"push_shared_bytes", "concat"} /\ last'.self = r) =>
              ropes'[r].kind = "Concat"
        /\ ropes[r].kind = "Concat" => ropes'[r].kind # "Flat"
\* C15: every Concat rope holds at least two chunks, push_shared_bytes and concat
\* leave the rope Concat whatever is added, and no operation turns a Concat rope
\* into a Flat one.
C15_ConcatStaysConcat == [][C15_Step]_vars
C15_Witness ==
    /\ last.op = "push_shared_bytes" /\ last.path = "Flat"
    /\ ropes[last.self].kind = "Concat" /\ Len(ropes[last.self].data) = 2
    /\ len(ropes[last.self], chunks) = 0

\* one iteration of the loop of read_internal, from the cursor's state with
\* `want` bytes still requested: it exits with nothing copied when no chunk is
\* left or the copy is of zero bytes, and otherwise copies between 1 and `want`
\* bytes and goes on with that many fewer requested
C16_IterationProgress ==
    rd.open =>
        \A want \in WantSizes : \A buf \in Sinks(want) :
            LET rope == ropes[rd.rope]
                el == current_el(rope, rd.cur)
                whole == read_loop(rope, chunks, rd.cur, want, buf)
            IN IF el = 0
               THEN whole = [cur |-> rd.cur, remaining |-> want, buf |-> buf]
               ELSE LET rb == read_bytes(rd.cur, chunks[el], want, buf)
                    IN IF rb.amount = 0
                       THEN whole = [cur |-> rb.cur, remaining |-> want, buf |-> rb.buf]
                       ELSE /\ rb.amount \in 1..want
                            /\ whole.remaining <= want - rb.amount
                            /\ whole = read_loop(rope, chunks,
                                                [rb.cur EXCEPT !.max_bytes = @ - rb.amount],
                                                want - rb.amount, rb.buf)
\* a call that returns more than 0 leaves less budget than it found
C16_CallProgress ==
    (rd.open /\ rd'.open /\ rd'.ret > 0) =>
        /\ rd'.cur.max_bytes < rd.cur.max_bytes
        /\ rd'.cur.max_bytes >= 0
\* C16: no iteration of read_internal's loop goes on without having copied a
\* byte, every call that returns more than 0 uses up budget, and a reader that is
\* read again and again returns 0 at some point.
C16_ReadsTerminate ==
    /\ [](C16_IterationProgress)
    /\ [][C16_CallProgress]_vars
    /\ (rd.open ~> (~rd.open \/ rd.ret = 0))
C16_Witness ==
    /\ rd.open /\ rd.ret = 0 /\ rd.eof /\ ~rd.polled /\ rd.n = 1
    /\ Len(rd.out) = 2 /\ Len(Elems(ropes[rd.rope])) = 3
====
